---------------------------- MODULE Spec2Model ----------------------------
(***************************************************************************)
(* Model of random_lumberjacks/visualization/visualization_functions.py:   *)
(* the Multiplot grid plotter, its subclass LinearityTest, and the pure    *)
(* helpers _xyz, re.sub('\W', "_", .), scale_units and the index           *)
(* computation of _test_goldfeld_quandt.                                   *)
(*                                                                         *)
(* A column name is a sequence of one-character strings.  A pandas Index   *)
(* of column names is a sequence of names (duplicates are possible, as in  *)
(* pandas).  A grid cell is a pair <<row, col>>, counted from 0.           *)
(***************************************************************************)
EXTENDS Integers, Sequences, FiniteSets, TLC

VARIABLES
    kind,      \* "Multiplot" or "LinearityTest": the class of the instance
    df,        \* self.df.columns: the column names of the instance's dataset
    columns,   \* self.columns: the active column set
    n_cols,    \* self.n_cols
    n_rows,    \* self.n_rows
    op,        \* the operation that ran last
    err,       \* the error the last operation raised to its caller, or "none"
    grid,      \* <<nrows, ncols>> of the grid the last rendering call allocated
    draws,     \* the draw invocations of the last rendering call, in order
    fin,       \* input of the pure function applied, or the arguments of a pending call
    fout,      \* its result
    fstage     \* how far the pure function has run

vars == <<kind, df, columns, n_cols, n_rows, op, err, grid, draws, fin, fout, fstage>>

objVars == <<kind, df, columns, n_cols, n_rows, op, err, grid, draws>>
fnVars == <<fin, fout, fstage>>

----------------------------------------------------------------------------
(* Bounds of the model *)

MaxDfCols == 3      \* most columns a dataset has
MaxNCols == 3       \* largest n_cols a caller passes
MaxArgLen == 2      \* longest list of names passed to modify_col_list

(* The names callers use: a clean one, one with a non-word character, and  *)
(* the sanitized form of the latter.                                       *)
ColNames == { <<"x">>, <<"y", " ">>, <<"y", "_">> }

SeqsUpTo(S, n) == UNION { [1..k -> S] : k \in 0..n }

----------------------------------------------------------------------------
(* Helpers of the Python runtime and of pandas *)

Range(s) == { s[i] : i \in 1..Len(s) }

RECURSIVE SelectSeqBy(_, _)
\* the elements of s that are in the set keep, in order
SelectSeqBy(s, keep) ==
    IF s = <<>> THEN <<>>
    ELSE IF Head(s) \in keep THEN <<Head(s)>> \o SelectSeqBy(Tail(s), keep)
         ELSE SelectSeqBy(Tail(s), keep)

\* math.ceil(a / b) for a >= 0, b >= 1
Ceil(a, b) == (a + b - 1) \div b

\* the word characters (\w) among the characters the model uses
WordChars == {"a", "x", "y", "Z", "0", "_"}
Chars == WordChars \cup {" ", "-", "("}

\* as if the pattern were '\W+': a run of non-word characters becomes one "_"
ReSubNonWord_Runs(name) ==
    LET kept == { i \in 1..Len(name) :
                     name[i] \in WordChars \/ i = 1 \/ name[i-1] \in WordChars }
        RECURSIVE Build(_)
        Build(i) == IF i > Len(name) THEN <<>>
                    ELSE IF i \notin kept THEN Build(i+1)
                    ELSE <<IF name[i] \in WordChars THEN name[i] ELSE "_">> \o Build(i+1)
    IN Build(1)

\* re.sub('\W', "_", name)
ReSubNonWord(name) ==
    [i \in 1..Len(name) |-> IF name[i] \in WordChars THEN name[i] ELSE "_"]

\* Index.drop as if called with errors='ignore': no label is reported missing
IndexDropMissing_Ignore(index, labels) == {}

\* pandas Index.drop(labels), errors='raise': the labels not found
IndexDropMissing(index, labels) == Range(labels) \ Range(index)

\* pandas Index.drop(labels): every occurrence of every label is removed
IndexDrop(index, labels) == SelectSeqBy(index, Range(index) \ Range(labels))

\* Index.drop_duplicates as if called with keep='last'
DropDuplicates_KeepLast(index) ==
    LET lasts == { i \in 1..Len(index) : \A j \in (i+1)..Len(index) : index[j] # index[i] }
        RECURSIVE Keep(_)
        Keep(i) == IF i > Len(index) THEN <<>>
                   ELSE IF i \in lasts THEN <<index[i]>> \o Keep(i+1)
                        ELSE Keep(i+1)
    IN Keep(1)

\* pandas Index.drop_duplicates(), keep='first'
DropDuplicates(index) ==
    LET firsts == { i \in 1..Len(index) : \A j \in 1..(i-1) : index[j] # index[i] }
        RECURSIVE Keep(_)
        Keep(i) == IF i > Len(index) THEN <<>>
                   ELSE IF i \in firsts THEN <<index[i]>> \o Keep(i+1)
                        ELSE Keep(i+1)
    IN Keep(1)

----------------------------------------------------------------------------
(* Multiplot *)

\* Multiplot._set_rows: n_plots = 0 stands for the default False
SetRows(n_plots, dfc, nc) ==
    LET n == IF n_plots = 0 THEN Len(dfc) ELSE n_plots
    IN Ceil(n, nc)

\* LinearityTest._fix_col_names: the dataset's columns renamed
FixColNames(dfc) == [i \in 1..Len(dfc) |-> ReSubNonWord(dfc[i])]

NoFn == <<>>

\* Multiplot.__init__ / LinearityTest.__init__
Constructed ==
    /\ kind \in {"Multiplot", "LinearityTest"}
    /\ n_cols \in 1..MaxNCols
    /\ columns \in SeqsUpTo(ColNames, MaxDfCols)
    /\ df = IF kind = "LinearityTest" THEN FixColNames(columns) ELSE columns
    /\ n_rows = SetRows(0, columns, n_cols)
    /\ op = "init"
    /\ err = "none"
    /\ grid = <<0, 0>>
    /\ draws = <<>>

Init ==
    /\ Constructed
    /\ fin = NoFn /\ fout = NoFn /\ fstage = "off"

\* Multiplot.set_cols
set_cols(c) ==
    /\ n_cols' = c
    /\ n_rows' = SetRows(0, df, c)
    /\ op' = "set_cols"
    /\ err' = "none"
    /\ grid' = <<0, 0>>
    /\ draws' = <<>>
    /\ UNCHANGED <<kind, df, columns, fnVars>>

\* Multiplot.modify_col_list
modify_col_list(cols, drop) ==
    /\ op' = IF drop THEN "modify_col_list_drop" ELSE "modify_col_list_add"
    /\ grid' = <<0, 0>>
    /\ draws' = <<>>
    /\ IF drop /\ IndexDropMissing(columns, cols) # {}
       THEN \* Index.drop raises KeyError before anything is assigned
            /\ err' = "KeyError"
            /\ UNCHANGED <<columns, n_rows>>
       ELSE /\ err' = "none"
            /\ columns' = IF drop THEN IndexDrop(columns, cols)
                          ELSE DropDuplicates(columns \o cols)
            /\ n_rows' = SetRows(0, df, n_cols)
    /\ UNCHANGED <<kind, df, n_cols, fnVars>>

\* plt.subplots(nrows, ncols) as _generate_subplots calls it (squeeze=True):
\* one Axes for a 1 x 1 grid, a 1-D array when one dimension is 1, else 2-D
GenerateSubplots(nr, nc) ==
    IF nr < 1 \/ nc < 1 THEN [shape |-> "ValueError", nrows |-> nr, ncols |-> nc]
    ELSE IF nr = 1 /\ nc = 1 THEN [shape |-> "scalar", nrows |-> nr, ncols |-> nc]
    ELSE IF nr = 1 \/ nc = 1 THEN [shape |-> "1d", nrows |-> nr, ncols |-> nc]
    ELSE [shape |-> "2d", nrows |-> nr, ncols |-> nc]

NoCell == <<-1, -1>>

\* axes[k]: one subscript on what plt.subplots returned
Subscript1(axes, k) ==
    IF axes.shape = "scalar" THEN [err |-> "TypeError", cell |-> NoCell]
    ELSE IF axes.shape = "1d"
         THEN IF k >= axes.nrows * axes.ncols
              THEN [err |-> "IndexError", cell |-> NoCell]
              ELSE [err |-> "none",
                    cell |-> IF axes.nrows = 1 THEN <<0, k>> ELSE <<k, 0>>]
         ELSE \* a whole row of a 2-D grid is no axis to draw on
              [err |-> "AttributeError", cell |-> NoCell]

\* axes[r][c]: two subscripts on what plt.subplots returned
Subscript2(axes, r, c) ==
    IF axes.shape = "scalar" THEN [err |-> "TypeError", cell |-> NoCell]
    ELSE IF axes.shape = "1d"
         THEN IF r >= axes.nrows * axes.ncols
              THEN [err |-> "IndexError", cell |-> NoCell]
              ELSE [err |-> "TypeError", cell |-> NoCell]
         ELSE IF r >= axes.nrows \/ c >= axes.ncols
              THEN [err |-> "IndexError", cell |-> NoCell]
              ELSE [err |-> "none", cell |-> <<r, c>>]

\* Multiplot._determine_ax for self.ax_i = i
DetermineAx(i, nr, nc, axes) ==
    LET row == i \div nc
        col == i % nc
    IN IF nc = 1 THEN Subscript1(axes, row)
       ELSE IF nr = 1 THEN Subscript1(axes, col)
       ELSE Subscript2(axes, row, col)

\* the body of sb_multiplot for one column; default_axis stands for the test
\* "default_axis and kwargs": the lookup self.df[self.last_col] is made only
\* when it is false and the column is passed positionally
ColumnLookup(c, dfc, default_axis) ==
    IF ~default_axis /\ c \notin Range(dfc) THEN "KeyError" ELSE "none"

\* one pass of the loop of _multicol_plot_wrapper, for the i-th column (from 0)
WrapperStep(i, c, nr, nc, axes, dfc, default_axis) ==
    LET ax == DetermineAx(i, nr, nc, axes)
    IN IF ax.err # "none" THEN ax
       ELSE [err |-> ColumnLookup(c, dfc, default_axis), cell |-> ax.cell]

\* Multiplot.sb_multiplot under _multicol_plot_wrapper
sb_multiplot(default_axis) ==
    LET axes == GenerateSubplots(n_rows, n_cols)
        step(i) == WrapperStep(i - 1, columns[i], n_rows, n_cols, axes, df, default_axis)
        bad == { i \in 1..Len(columns) : step(i).err # "none" }
        stop == IF bad = {} THEN Len(columns) + 1
                ELSE CHOOSE i \in bad : \A j \in bad : i <= j
    IN /\ op' = "sb_multiplot"
       /\ IF axes.shape = "ValueError"
          THEN /\ err' = "ValueError"
               /\ grid' = <<0, 0>>
               /\ draws' = <<>>
          ELSE /\ grid' = <<n_rows, n_cols>>
               /\ draws' = [i \in 1..(stop - 1) |->
                               [idx |-> i - 1, col |-> columns[i], cell |-> step(i).cell]]
               /\ err' = IF bad = {} THEN "none" ELSE step(stop).err
       /\ UNCHANGED <<kind, df, columns, n_cols, n_rows, fnVars>>

----------------------------------------------------------------------------
(* LinearityTest *)

linearity_plots == 5
logistic_plots == 2

\* smf.ols / smf.logit on the formula target~column: a name that is no column
\* of self.df cannot be evaluated; the fit itself may fail on the data
FitRaises(col, tgt, dfc, failAt) ==
    \/ col \notin Range(dfc)
    \/ tgt \notin Range(dfc)
    \/ failAt = "fit"

\* LinearityTest._sb_linearity_plots: the charts dispatched by position index
SbLinearityPlots(col, plots, nr, nc) ==
    LET axes == GenerateSubplots(nr, nc)
        step(i) == DetermineAx(i - 1, nr, nc, axes)
        bad == { i \in 1..plots : step(i).err # "none" }
        stop == IF bad = {} THEN plots + 1
                ELSE CHOOSE i \in bad : \A j \in bad : i <= j
    IN [err |-> IF axes.shape = "ValueError" THEN "ValueError"
                ELSE IF bad = {} THEN "none" ELSE step(stop).err,
        grid |-> IF axes.shape = "ValueError" THEN <<0, 0>> ELSE <<nr, nc>>,
        draws |-> IF axes.shape = "ValueError" THEN <<>>
                  ELSE [i \in 1..(stop - 1) |->
                           [idx |-> i - 1, col |-> col, cell |-> step(i).cell]]]

\* LinearityTest.sb_linearity_test; failAt is where the statistics library
\* fails on the data, if it does
sb_linearity_test(column, target, logistic, failAt) ==
    LET col == ReSubNonWord(column)
        tgt == ReSubNonWord(target)
        plots == IF logistic THEN logistic_plots ELSE linearity_plots
        during == SetRows(plots, df, n_cols)
        shown == SbLinearityPlots(col, plots, during, n_cols)
    IN /\ kind = "LinearityTest"
       /\ op' = "sb_linearity_test"
       /\ IF FitRaises(col, tgt, df, failAt)
          THEN /\ err' = "FitError"
               /\ n_rows' = during
               /\ grid' = <<0, 0>>
               /\ draws' = <<>>
          ELSE IF failAt = "report"
          THEN /\ err' = "ReportError"
               /\ n_rows' = during
               /\ grid' = <<0, 0>>
               /\ draws' = <<>>
          ELSE /\ err' = shown.err
               /\ grid' = shown.grid
               /\ draws' = shown.draws
               /\ n_rows' = IF shown.err = "none" THEN SetRows(0, df, n_cols) ELSE during
       /\ UNCHANGED <<kind, df, columns, n_cols, fnVars>>

FailPoints == {"none", "fit", "report"}

Next ==
    \/ \E c \in 1..MaxNCols : set_cols(c)
    \/ \E cols \in SeqsUpTo(ColNames, MaxArgLen), drop \in BOOLEAN : modify_col_list(cols, drop)
    \/ \E default_axis \in BOOLEAN : sb_multiplot(default_axis)
    \/ \E column \in ColNames, target \in ColNames, logistic \in BOOLEAN, failAt \in FailPoints :
          sb_linearity_test(column, target, logistic, failAt)

Spec == Init /\ [][Next]_vars

\* A caller about to make one modify_col_list call on a constructed instance:
\* fin holds the arguments of the call, which the caller may repeat.
InitCols ==
    /\ Constructed
    /\ fin \in [cols : SeqsUpTo(ColNames, MaxArgLen), drop : BOOLEAN]
    /\ fout = NoFn
    /\ fstage = "input"

call_modify_col_list == modify_col_list(fin.cols, fin.drop)

SpecCols == InitCols /\ [][call_modify_col_list]_vars

----------------------------------------------------------------------------
(* The pure functions, each under a specification of its own: Init draws   *)
(* the input, the action applies the function.  The instance is idle.      *)

Idle ==
    /\ kind = "none" /\ df = <<>> /\ columns = <<>>
    /\ n_cols = 1 /\ n_rows = 0
    /\ op = "init" /\ err = "none" /\ grid = <<0, 0>> /\ draws = <<>>

----------------------------------------------------------------------------
(* Multiplot._xyz and Multiplot._xyz_to_kwargs.  A dict is a function whose *)
(* domain is its key set; None is what dict.get returns for a missing key. *)

Roles == <<"x", "y", "z">>
None == "None"
AxisValues == {"", "p", "q"}
Iterables == {"col", "col2"}
KwargsSet == UNION { [D -> AxisValues] : D \in SUBSET Range(Roles) }

Falsy(v) == v = None \/ v = ""
DictGet(d, k) == IF k \in DOMAIN d THEN d[k] ELSE None

\* filter(None, var_list): the truthy values, in order
FilterNone(var_list) == SelectSeq(var_list, LAMBDA v : ~Falsy(v))

\* Multiplot._xyz
Xyz(terms, iterable) ==
    LET var_list == <<DictGet(terms, "x"), DictGet(terms, "y"), DictGet(terms, "z")>>
        empty == { i \in 1..3 : Falsy(var_list[i]) }
        first == CHOOSE i \in empty : \A j \in empty : i <= j
        filled == IF empty = {} THEN var_list
                  ELSE [var_list EXCEPT ![first] = iterable]
        values == FilterNone(filled)
    IN [r \in { Roles[i] : i \in 1..Len(values) } |->
           values[CHOOSE i \in 1..3 : Roles[i] = r]]

\* Multiplot._xyz_to_kwargs (return_axes=True shape: both results)
XyzToKwargs(kwargs, iterable) ==
    LET axes == Xyz(kwargs, iterable)
        new_kwargs == [k \in DOMAIN kwargs \cup DOMAIN axes |->
                          IF k \in DOMAIN axes THEN axes[k] ELSE kwargs[k]]
    IN [new_kwargs |-> new_kwargs, axes |-> axes]

InitXyz ==
    /\ Idle
    /\ fin \in [kwargs : KwargsSet, iterable : Iterables]
    /\ fout = NoFn
    /\ fstage = "input"

xyz_to_kwargs ==
    /\ fstage = "input"
    /\ fout' = XyzToKwargs(fin.kwargs, fin.iterable)
    /\ fstage' = "done"
    /\ UNCHANGED <<objVars, fin>>

SpecXyz == InitXyz /\ [][xyz_to_kwargs]_vars

\* C3: the binding maps the first unfilled role (in the order x, y, z) to the
\* current column, every filled role to its original value, and leaves every
\* other unfilled role unbound; with all three filled nothing is bound to the
\* column.
C3_FirstUnfilledRoleBound ==
    fstage = "done" =>
        LET k == fin.kwargs
            out == fout.new_kwargs
            filledIn(d, i) == ~Falsy(DictGet(d, Roles[i]))
            unfilled == { i \in 1..3 : ~filledIn(k, i) }
        IN /\ \A i \in 1..3 : filledIn(k, i) => DictGet(out, Roles[i]) = k[Roles[i]]
           /\ \A i \in unfilled :
                 IF \A j \in unfilled : i <= j
                 THEN DictGet(out, Roles[i]) = fin.iterable
                 ELSE ~filledIn(out, i)
           /\ unfilled = {} => (out = k /\ \A i \in 1..3 : out[Roles[i]] # fin.iterable)

----------------------------------------------------------------------------
(* Name sanitization: re.sub('\W', "_", name) *)

MaxNameLen == 3

InitNames ==
    /\ Idle
    /\ fin \in SeqsUpTo(Chars, MaxNameLen)
    /\ fout = NoFn
    /\ fstage = "input"

\* the first sanitization (_fix_col_names, or the arguments of sb_linearity_test)
sanitize ==
    /\ fstage = "input"
    /\ fout' = <<ReSubNonWord(fin)>>
    /\ fstage' = "once"
    /\ UNCHANGED <<objVars, fin>>

\* the sanitized name sanitized again (sb_linearity_test on a fixed column name)
sanitize_again ==
    /\ fstage = "once"
    /\ fout' = <<fout[1], ReSubNonWord(fout[1])>>
    /\ fstage' = "twice"
    /\ UNCHANGED <<objVars, fin>>

NextNames == sanitize \/ sanitize_again

SpecNames == InitNames /\ [][NextNames]_vars

\* C6: the sanitized name has only word characters and the length of the
\* input, and sanitizing it again returns it unchanged.
C6_SanitizeIdempotent ==
    /\ fstage \in {"once", "twice"} =>
          /\ Len(fout[1]) = Len(fin)
          /\ \A i \in 1..Len(fout[1]) : fout[1][i] \in WordChars
          /\ \A i \in 1..Len(fin) : fin[i] \in WordChars => fout[1][i] = fin[i]
    /\ fstage = "twice" => fout[2] = fout[1]

C6_Witness ==
    /\ fstage = "twice"
    /\ Len(fin) = MaxNameLen
    /\ \E i \in 1..Len(fin) : fin[i] \notin WordChars
    /\ \E i \in 1..Len(fin) : fin[i] \in WordChars

----------------------------------------------------------------------------
(* scale_units.  A value is [mant, exp3], the number mant * 1000^exp3 with  *)
(* exp3 in -1..4: a float given in thousandths when exp3 = -1, an int       *)
(* otherwise.  Only values >= 0 are modelled.  A string is a sequence of    *)
(* characters.                                                              *)

MaxMant == 4000
Values == [mant : 0..MaxMant, exp3 : -1..4]

Pow1000(n) == IF n = 0 THEN 1 ELSE IF n = 1 THEN 1000 ELSE IF n = 2 THEN 1000000 ELSE 1000000000

\* value < 1000^k, exactly (mant is below 1000^4)
LtPow(v, k) ==
    IF v.mant = 0 THEN TRUE
    ELSE IF v.exp3 >= k THEN FALSE
    ELSE IF k - v.exp3 >= 4 THEN TRUE
    ELSE v.mant < Pow1000(k - v.exp3)

\* value < .99
LtPoint99(v) == v.mant = 0 \/ (v.exp3 = -1 /\ v.mant < 990)

\* the nearest integer to n / d, halves rounded up
RoundHalfUp(n, d) == (2 * n + d) \div (2 * d)

\* Python's round(n / d): the nearest integer, halves to the even one
RoundHalfEven(n, d) ==
    LET f == n \div d
        r == n % d
    IN IF 2 * r < d THEN f
       ELSE IF 2 * r > d THEN f + 1
       ELSE IF f % 2 = 0 THEN f ELSE f + 1

\* round(value / 1000^k), for 1000^k <= value < 1000^(k+1) or k = 0
RoundScaled(v, k) ==
    IF v.exp3 >= k THEN v.mant * Pow1000(v.exp3 - k)
    ELSE RoundHalfEven(v.mant, Pow1000(k - v.exp3))

Digit == <<"0", "1", "2", "3", "4", "5", "6", "7", "8", "9">>

RECURSIVE IntStr(_)
\* str(n) for an int n >= 0
IntStr(n) == IF n < 10 THEN <<Digit[n + 1]>> ELSE IntStr(n \div 10) \o <<Digit[(n % 10) + 1]>>

RECURSIVE Zeros(_)
Zeros(n) == IF n = 0 THEN <<>> ELSE <<"0">> \o Zeros(n - 1)

\* str(round(value, 3)) for a float m / 1000 below 1: the shortest decimal
FloatStr3(m) ==
    LET d1 == Digit[(m \div 100) + 1]
        d2 == Digit[((m \div 10) % 10) + 1]
        d3 == Digit[(m % 10) + 1]
    IN IF m % 10 # 0 THEN <<"0", ".", d1, d2, d3>>
       ELSE IF m % 100 # 0 THEN <<"0", ".", d1, d2>>
       ELSE <<"0", ".", d1>>

\* str(value) of the value itself
ValueStr(v) ==
    IF v.exp3 = -1 THEN
        IF v.mant < 1000 THEN FloatStr3(v.mant)
        ELSE IntStr(v.mant \div 1000) \o Tail(FloatStr3(v.mant % 1000))
    ELSE IF v.mant = 0 THEN <<"0">>
    ELSE IntStr(v.mant) \o Zeros(3 * v.exp3)

\* scale_units
ScaleUnits(v) ==
    IF LtPoint99(v) THEN ValueStr(v)
    ELSE IF LtPow(v, 1) THEN IntStr(RoundScaled(v, 0))
    ELSE IF LtPow(v, 2) THEN IntStr(RoundScaled(v, 1)) \o <<"k">>
    ELSE IF LtPow(v, 3) THEN IntStr(RoundScaled(v, 2)) \o <<"M">>
    ELSE IF LtPow(v, 4) THEN IntStr(RoundScaled(v, 3)) \o <<"B">>
    ELSE IF LtPow(v, 5) THEN IntStr(RoundScaled(v, 4)) \o <<"T">>
    ELSE ValueStr(v)

InitScale ==
    /\ Idle
    /\ fin \in Values
    /\ fout = NoFn
    /\ fstage = "input"

scale_units ==
    /\ fstage = "input"
    /\ fout' = ScaleUnits(fin)
    /\ fstage' = "done"
    /\ UNCHANGED <<objVars, fin>>

SpecScale == InitScale /\ [][scale_units]_vars

UnitSuffix == <<<<>>, <<"k">>, <<"M">>, <<"B">>, <<"T">>>>

\* the index of the largest unit 1000^k (k in 0..4) not above the value; 0 below 1
UnitOf(v) == CHOOSE k \in 0..4 : (k = 0 \/ ~LtPow(v, k)) /\ (k = 4 \/ LtPow(v, k + 1))

\* n is value / 1000^k rounded to the nearest integer; a half goes up when
\* halfUp, to the even neighbour otherwise
IsRounded(v, k, n, halfUp) ==
    IF v.exp3 >= k THEN n = v.mant * Pow1000(v.exp3 - k)
    ELSE LET d == Pow1000(k - v.exp3)
             twice == 2 * (v.mant - n * d)
         IN /\ twice <= d
            /\ -twice <= d
            /\ (twice = d \/ -twice = d) =>
                  IF halfUp THEN twice = -d ELSE n % 2 = 0

\* the text of a value below .99 names the value to three decimals
IsThreeDecimals(v, text) ==
    IF v.exp3 # -1 THEN text = <<"0">>
    ELSE /\ Len(text) \in 3..5
         /\ text[1] = "0" /\ text[2] = "."
         /\ text[Len(text)] # "0" \/ Len(text) = 3
         /\ LET dig(i) == IF i <= Len(text)
                          THEN (CHOOSE n \in 0..9 : Digit[n + 1] = text[i]) ELSE 0
            IN 100 * dig(3) + 10 * dig(4) + dig(5) = v.mant

Value(m, e) == [mant |-> m, exp3 |-> e]

\* C7 as claimed (for values below 10^15): the value is divided by the largest unit not above it and
\* rounded to the nearest integer, halves up; values below .99 are printed to
\* three decimals; 950 -> "950", 1500 -> "2k", 2500000 -> "3M", 0.5 -> "0.5".
C7_RoundsHalfUp ==
    fstage = "done" =>
        /\ LtPoint99(fin) => IsThreeDecimals(fin, fout)
        /\ (~LtPoint99(fin) /\ LtPow(fin, 5)) =>
              \E n \in 0..1000 :
                  /\ IsRounded(fin, UnitOf(fin), n, TRUE)
                  /\ fout = IntStr(n) \o UnitSuffix[UnitOf(fin) + 1]
        /\ fin = Value(950, 0) => fout = <<"9", "5", "0">>
        /\ fin = Value(1500, 0) => fout = <<"2", "k">>
        /\ fin = Value(2500, 1) => fout = <<"3", "M">>
        /\ fin = Value(500, -1) => fout = <<"0", ".", "5">>

\* C7 as amended: a value below 10^15 is divided by the largest unit not above
\* it (1 from .99 up) and rounded to the nearest integer, halves to the even
\* integer; values below .99 are printed to three decimals; 950 -> "950",
\* 1500 -> "2k", 2500000 -> "2M", 0.5 -> "0.5".
C7_RoundsHalfEven ==
    fstage = "done" =>
        /\ LtPoint99(fin) => IsThreeDecimals(fin, fout)
        /\ (~LtPoint99(fin) /\ LtPow(fin, 5)) =>
              \E n \in 0..1000 :
                  /\ IsRounded(fin, UnitOf(fin), n, FALSE)
                  /\ fout = IntStr(n) \o UnitSuffix[UnitOf(fin) + 1]
        /\ fin = Value(950, 0) => fout = <<"9", "5", "0">>
        /\ fin = Value(1500, 0) => fout = <<"2", "k">>
        /\ fin = Value(2500, 1) => fout = <<"2", "M">>
        /\ fin = Value(500, -1) => fout = <<"0", ".", "5">>

C7_Witness ==
    /\ fstage = "done"
    /\ fin = Value(2500, 1)
    /\ fout = <<"2", "M">>

----------------------------------------------------------------------------
(* LinearityTest._test_goldfeld_quandt: which rows reach the test.  The     *)
(* explanatory column is a sequence of numbers; the dataset has the default *)
(* index, so row i (from 0) has the label i.  Quantiles are kept times 100. *)

MaxRows == 4
MaxVal == 3
LowerQ == 45
UpperQ == 55

\* 100 * Series.quantile(q / 100), pandas' linear interpolation
Quantile100(xs, q) ==
    LET sorted == SortSeq(xs, LAMBDA a, b : a < b)
        pos == q * (Len(xs) - 1)
        lo == pos \div 100
        frac == pos % 100
    IN IF frac = 0 THEN 100 * sorted[lo + 1]
       ELSE 100 * sorted[lo + 1] + frac * (sorted[lo + 2] - sorted[lo + 1])

\* middle_idx: the labels of the rows within [lwr, upr]
MiddleIdx(xs, lq, uq) ==
    { i \in 0..(Len(xs) - 1) :
         /\ 100 * xs[i + 1] >= Quantile100(xs, lq)
         /\ 100 * xs[i + 1] <= Quantile100(xs, uq) }

\* idx: [x - 1 for x in self.df.index if x not in middle_idx]
GoldfeldQuandtIdx(xs, lq, uq) ==
    LET outer == SelectSeq([i \in 1..Len(xs) |-> i - 1],
                           LAMBDA x : x \notin MiddleIdx(xs, lq, uq))
    IN [i \in 1..Len(outer) |-> outer[i] - 1]

\* the rows model.resid.iloc[idx] and model.model.exog[idx] select: a negative
\* position counts from the end
PositionalRows(idx, n) == [i \in 1..Len(idx) |-> IF idx[i] < 0 THEN idx[i] + n ELSE idx[i]]

InitGQ ==
    /\ Idle
    /\ fin \in UNION { [1..k -> 0..MaxVal] : k \in 1..MaxRows }
    /\ fout = NoFn
    /\ fstage = "input"

test_goldfeld_quandt ==
    /\ fstage = "input"
    /\ fout' = PositionalRows(GoldfeldQuandtIdx(fin, LowerQ, UpperQ), Len(fin))
    /\ fstage' = "done"
    /\ UNCHANGED <<objVars, fin>>

SpecGQ == InitGQ /\ [][test_goldfeld_quandt]_vars

\* C8: the rows passed to the Goldfeld-Quandt test are exactly the rows whose
\* explanatory value is below the lower quantile or above the upper quantile;
\* no row of the middle band is passed.
C8_MiddleBandExcluded ==
    fstage = "done" =>
        LET below(i) == 100 * fin[i + 1] < Quantile100(fin, LowerQ)
            above(i) == 100 * fin[i + 1] > Quantile100(fin, UpperQ)
        IN Range(fout) = { i \in 0..(Len(fin) - 1) : below(i) \/ above(i) }

----------------------------------------------------------------------------
(* Properties of the Multiplot / LinearityTest instance, under Spec *)

NoDup(s) == \A i, j \in 1..Len(s) : s[i] = s[j] => i = j
FirstIndex(s, e) == CHOOSE i \in 1..Len(s) : s[i] = e /\ \A j \in 1..(i-1) : s[j] # e

\* C1: in every state of a Multiplot reached by set_cols and modify_col_list,
\* n_rows is the ceiling of (number of active columns / n_cols), that is the
\* least r with r * n_cols >= number of active columns.
C1_RowsCoverActiveColumns ==
    kind = "Multiplot" =>
        /\ n_rows * n_cols >= Len(columns)
        /\ (n_rows - 1) * n_cols < Len(columns)

\* C2: one sb_multiplot call on a non-empty active set (whose columns are all in
\* the dataset) draws each active column once, in order, the i-th (from 0) on
\* cell (i div n_cols, i mod n_cols) of the allocated n_rows x n_cols grid; the
\* cell exists, also in a 1 x 1 grid, and distinct columns get distinct cells.
C2_OneCellPerColumn ==
    (op = "sb_multiplot" /\ columns # <<>> /\ Range(columns) \subseteq Range(df)) =>
        /\ err = "none"
        /\ grid = <<n_rows, n_cols>>
        /\ Len(draws) = Len(columns)
        /\ \A i \in 1..Len(draws) :
              /\ draws[i].col = columns[i]
              /\ draws[i].cell = <<(i - 1) \div n_cols, (i - 1) % n_cols>>
              /\ draws[i].cell[1] < grid[1]
              /\ draws[i].cell[2] < grid[2]
        /\ \A i, j \in 1..Len(draws) : draws[i].cell = draws[j].cell => i = j

\* a call of modify_col_list in drop mode naming a column that is not active
DropAbsent ==
    /\ op' = "modify_col_list_drop"
    /\ fin.drop
    /\ \E i \in 1..Len(fin.cols) : \A j \in 1..Len(columns) : columns[j] # fin.cols[i]

\* C4 as claimed: dropping a name that is not in the active set is a silent
\* no-op: no error reaches the caller, the active set and n_rows are unchanged.
C4_DropAbsentIsSilent ==
    [][DropAbsent => (err' = "none" /\ columns' = columns /\ n_rows' = n_rows)]_vars

\* C4 as amended: dropping a name that is not in the active set raises KeyError
\* to the caller; the active set and n_rows are unchanged.
C4_DropAbsentRaises ==
    [][DropAbsent => (err' = "KeyError" /\ columns' = columns /\ n_rows' = n_rows)]_vars

C4_Witness ==
    /\ op = "modify_col_list_drop"
    /\ err = "KeyError"
    /\ columns # <<>>

\* C5: add mode on a duplicate-free active set: names already active change
\* nothing (same elements, order and size); new names are appended after the
\* existing ones, each once, in the order of their first occurrence.
C5_AddIdempotent ==
    [][(op' = "modify_col_list_add" /\ ~fin.drop /\ NoDup(columns)) =>
          LET cols == fin.cols
              old == Len(columns)
              new == Len(columns')
          IN /\ err' = "none"
             /\ Range(cols) \subseteq Range(columns) => columns' = columns
             /\ new >= old
             /\ SubSeq(columns', 1, old) = columns
             /\ NoDup(columns')
             /\ Range(columns') = Range(columns) \cup Range(cols)
             /\ \A a, b \in (old + 1)..new :
                   a < b => FirstIndex(cols, columns'[a]) < FirstIndex(cols, columns'[b])
      ]_vars

\* names that were all active already were added again
C5_Witness ==
    /\ op = "modify_col_list_add"
    /\ err = "none"
    /\ Len(fin.cols) > 1
    /\ Range(fin.cols) \subseteq Range(df)
    /\ kind = "Multiplot"
    /\ columns = df
    /\ NoDup(columns)

\* new names were appended, one of them named twice in the call
C5_WitnessAppend ==
    /\ op = "modify_col_list_add"
    /\ err = "none"
    /\ NoDup(columns)
    /\ Len(columns) > Len(df)
    /\ ~NoDup(fin.cols)

\* C9: a sb_linearity_test call that completes leaves n_rows and n_cols as they
\* were before the call, n_rows being the default ceil(dataset columns / n_cols),
\* while the grid allocated during the call has ceil(5 / n_cols) rows (OLS) or
\* ceil(2 / n_cols) rows (logistic).
C9_GridRestored ==
    [][(op' = "sb_linearity_test" /\ err' = "none") =>
          /\ n_cols' = n_cols
          /\ n_rows' = n_rows
          /\ n_rows' = Ceil(Len(df), n_cols)
          /\ grid' \in { <<Ceil(linearity_plots, n_cols), n_cols>>,
                         <<Ceil(logistic_plots, n_cols), n_cols>> }
      ]_vars

\* C10: a sb_linearity_test call that fails dispatches no chart after the
\* failure and leaves n_rows and n_cols as they were before the call.
C10_FailureLeavesGrid ==
    [][(op' = "sb_linearity_test" /\ err' # "none") =>
          /\ draws' = <<>>
          /\ n_cols' = n_cols
          /\ n_rows' = n_rows
      ]_vars

\* C11: in every state reached by constructing a Multiplot or a LinearityTest
\* and applying modify_col_list, set_cols and sb_linearity_test, every name of
\* the active column set is the name of a column of the instance's dataset.
C11_ActiveColumnsInDataset ==
    \A i \in 1..Len(columns) : \E j \in 1..Len(df) : df[j] = columns[i]

=============================================================================
